---- MODULE Spec2Model ----
(***************************************************************************)
(* State-machine model of pss: scripts/pss.py (main) and psslib/driver.py  *)
(* (pss_run, _known_file_type, _pattern_has_uppercase).                    *)
(*                                                                         *)
(* FileFinder, ContentMatcher and istextfile live in psslib modules that   *)
(* driver.py imports; they are modelled from their documented contracts.   *)
(* Options that pss_run only forwards to the output formatter or to the    *)
(* regex compiler (do_colors, prefix_filename_to_file_matches,             *)
(* show_column_of_first_match, whole_words, literal_pattern) do not        *)
(* influence the driver's control flow; they are carried in the option     *)
(* record and never varied by the callers modelled here.  include_types,   *)
(* exclude_types, add_ignored_dirs and remove_ignored_dirs are Python      *)
(* lists that the driver only folds into sets; they are modelled as sets.  *)
(* A text is a sequence of one-character strings; "0" stands for the NUL   *)
(* byte and "\n" for the line terminator.                                  *)
(***************************************************************************)
EXTENDS Integers, Sequences, FiniteSets, TLC

\* ------------------------------------------------------------------------
\* Bounds of the model
\* ------------------------------------------------------------------------
MaxPatLen == 3

MaxFiles == 2

MaxArgs == 2

BlockSize == 2

\* ------------------------------------------------------------------------
\* Program constants
\* ------------------------------------------------------------------------
maxint == 2147483647

None == "None"

NoPattern == <<"None">>

TYPE_EXTENSION_MAP ==
    [t \in {"actionscript", "cc", "perl", "python", "xml"} |->
        CASE t = "actionscript" -> {".as", ".mxml"}
          [] t = "cc"           -> {".c", ".h", ".xs"}
          [] t = "perl"         -> {".pl", ".pm", ".pod", ".t"}
          [] t = "python"       -> {".py"}
          [] t = "xml"          -> {".xml", ".dtd", ".xslt", ".ent"}]

ALL_KNOWN_EXTENSIONS == UNION {TYPE_EXTENSION_MAP[t] : t \in DOMAIN TYPE_EXTENSION_MAP}

DEFAULT_IGNORED_DIRS ==
    {"autom4te.cache", "blib", "_build", ".bzr", ".cdv", "cover_db",
     "CVS", "_darcs", "~.dep", "~.dot", ".git", ".hg", "~.nib",
     ".pc", "~.plst", "RCS", "SCCS", "_sgbak", ".svn"}

IGNORED_FILE_PATTERNS == {"~$", "#.+#$", "[._].*\\.swp$", "core\\.\\d+$"}

\* The signature of pss_run: its parameters and their defaults.
DefaultOpts ==
    [roots |-> <<>>, pattern |-> NoPattern, output_formatter |-> None,
     only_find_files |-> FALSE, search_all_types |-> FALSE,
     search_all_files_and_dirs |-> FALSE, add_ignored_dirs |-> {},
     remove_ignored_dirs |-> {}, recurse |-> TRUE, type_pattern |-> None,
     include_types |-> {}, exclude_types |-> {}, ignore_case |-> FALSE,
     smart_case |-> FALSE, invert_match |-> FALSE, whole_words |-> FALSE,
     literal_pattern |-> FALSE, max_match_count |-> maxint, do_colors |-> TRUE,
     prefix_filename_to_file_matches |-> TRUE,
     show_column_of_first_match |-> FALSE]

PssRunParams == DOMAIN DefaultOpts

\* ------------------------------------------------------------------------
\* _pattern_has_uppercase
\* ------------------------------------------------------------------------
IsUpper(c) == c \in {"A"}

RECURSIVE HasUpperNaive(_, _)
HasUpperNaive(pattern, i) ==
    IF i > Len(pattern) THEN FALSE
    ELSE IF IsUpper(pattern[i]) THEN TRUE
    ELSE HasUpperNaive(pattern, i + 1)

RECURSIVE HasUpperFrom(_, _, _)
HasUpperFrom(pattern, i, skipnext) ==
    IF i > Len(pattern) THEN FALSE
    ELSE IF skipnext THEN HasUpperFrom(pattern, i + 1, FALSE)
    ELSE IF pattern[i] = "\\" THEN HasUpperFrom(pattern, i + 1, TRUE)
    ELSE IF IsUpper(pattern[i]) THEN TRUE
    ELSE HasUpperFrom(pattern, i + 1, FALSE)

\* A variant that does not skip the character after a backslash.
pattern_has_uppercase_naive(pattern) == HasUpperNaive(pattern, 1)

pattern_has_uppercase(pattern) == HasUpperFrom(pattern, 1, FALSE)

\* ------------------------------------------------------------------------
\* _known_file_type
\* ------------------------------------------------------------------------
known_file_type(file) == file.ext \in ALL_KNOWN_EXTENSIONS

\* ------------------------------------------------------------------------
\* ContentMatcher: regex compilation and per-line search
\* ------------------------------------------------------------------------
BadAtom == [kind |-> "bad", ch |-> ""]

EscapeAtom(c) ==
    IF c = "A" THEN [kind |-> "bos", ch |-> ""]
    ELSE IF c = "a" THEN [kind |-> "lit", ch |-> "BEL"]
    ELSE [kind |-> "lit", ch |-> c]

RECURSIVE ParseFrom(_, _)
ParseFrom(pattern, i) ==
    IF i > Len(pattern) THEN <<>>
    ELSE IF pattern[i] = "\\"
         THEN IF i = Len(pattern) THEN <<BadAtom>>
              ELSE <<EscapeAtom(pattern[i + 1])>> \o ParseFrom(pattern, i + 2)
         ELSE <<[kind |-> "lit", ch |-> pattern[i]]>> \o ParseFrom(pattern, i + 1)

re_compile(pattern) == ParseFrom(pattern, 1)

Malformed(pattern) ==
    \E k \in 1..Len(re_compile(pattern)) : re_compile(pattern)[k] = BadAtom

Fold(c) == IF c = "A" THEN "a" ELSE c

RECURSIVE AtomsMatchAt(_, _, _, _, _)
AtomsMatchAt(atoms, k, line, i, ic) ==
    IF k > Len(atoms) THEN TRUE
    ELSE IF atoms[k].kind = "bos"
         THEN i = 1 /\ AtomsMatchAt(atoms, k + 1, line, i, ic)
         ELSE /\ i <= Len(line)
              /\ IF ic THEN Fold(line[i]) = Fold(atoms[k].ch)
                       ELSE line[i] = atoms[k].ch
              /\ AtomsMatchAt(atoms, k + 1, line, i + 1, ic)

re_search(m, line) ==
    \E i \in 1..(Len(line) + 1) : AtomsMatchAt(m.regex, 1, line, i, m.ignore_case)

\* The lines a file object yields when iterated from offset pos.
RECURSIVE ReadLines(_, _)
ReadLines(content, pos) ==
    IF pos >= Len(content) THEN <<>>
    ELSE LET nl == {j \in (pos + 1)..Len(content) : content[j] = "\n"}
             e  == IF nl = {} THEN Len(content)
                   ELSE CHOOSE j \in nl : \A j2 \in nl : j <= j2
         IN <<SubSeq(content, pos + 1, e)>> \o ReadLines(content, e)

RECURSIVE MatchLines(_, _, _, _)
MatchLines(m, lines, k, cap) ==
    IF k > Len(lines) \/ cap <= 0 THEN <<>>
    ELSE IF re_search(m, lines[k]) # m.invert_match
         THEN <<[lineno |-> k, line |-> lines[k]]>>
                  \o MatchLines(m, lines, k + 1, cap - 1)
         ELSE MatchLines(m, lines, k + 1, cap)

match_file(m, file, fobj, cap) == MatchLines(m, ReadLines(file.content, fobj.pos), 1, cap)

\* ------------------------------------------------------------------------
\* istextfile and file-object primitives
\* ------------------------------------------------------------------------
Min(a, b) == IF a < b THEN a ELSE b

\* fileobj.read(blocksize): the block read and the advanced file object
read_block(file, fobj) ==
    SubSeq(file.content, fobj.pos + 1, Min(Len(file.content), fobj.pos + BlockSize))

after_read(file, fobj) ==
    [fobj EXCEPT !.pos = Min(Len(file.content), fobj.pos + BlockSize)]

istextfile(file, fobj) ==
    ~ \E k \in 1..Len(read_block(file, fobj)) : read_block(file, fobj)[k] = "0"

\* A faulty variant of seek that leaves the position where it is.
seek_noop(fobj, offset) == fobj

seek(fobj, offset) == [fobj EXCEPT !.pos = offset]

\* ------------------------------------------------------------------------
\* FileFinder set-up (pss_run, first half)
\* ------------------------------------------------------------------------
\* A faulty variant of ignore_dirs_of that subtracts before it adds.
ignore_dirs_remove_first(o, G) ==
    IF o.search_all_files_and_dirs THEN {}
    ELSE (G \ o.remove_ignored_dirs) \cup o.add_ignored_dirs

ignore_dirs_of(o, G) ==
    IF o.search_all_files_and_dirs THEN {}
    ELSE (G \cup o.add_ignored_dirs) \ o.remove_ignored_dirs

\* The branch of lines 91-101: the type table decides the extension filter.
uses_type_table(o) ==
    /\ o.type_pattern = None
    /\ ~o.search_all_files_and_dirs
    /\ ~o.search_all_types

\* TYPE_EXTENSION_MAP[typ] raises KeyError for a typ that is no key.
raises_KeyError(o) ==
    /\ uses_type_table(o)
    /\ \E typ \in o.include_types \cup o.exclude_types :
          typ \notin DOMAIN TYPE_EXTENSION_MAP

search_extensions_of(o) ==
    IF ~uses_type_table(o) THEN {}
    ELSE IF o.include_types # {}
         THEN UNION {TYPE_EXTENSION_MAP[typ] : typ \in o.include_types}
         ELSE UNION {TYPE_EXTENSION_MAP[typ] : typ \in DOMAIN TYPE_EXTENSION_MAP}

ignore_extensions_of(o) ==
    IF ~uses_type_table(o) THEN {}
    ELSE UNION {TYPE_EXTENSION_MAP[typ] : typ \in o.exclude_types}

search_file_patterns_of(o) ==
    IF o.type_pattern # None THEN {o.type_pattern} ELSE {}

ignore_file_patterns_of(o) ==
    IF uses_type_table(o) THEN IGNORED_FILE_PATTERNS ELSE {}

NoFinder ==
    [built |-> FALSE, roots |-> <<>>, recurse |-> TRUE, ignore_dirs |-> {},
     search_extensions |-> {}, ignore_extensions |-> {},
     search_file_patterns |-> {}, ignore_file_patterns |-> {}]

FileFinder(o, G) ==
    [built |-> TRUE, roots |-> o.roots, recurse |-> o.recurse,
     ignore_dirs |-> ignore_dirs_of(o, G),
     search_extensions |-> search_extensions_of(o),
     ignore_extensions |-> ignore_extensions_of(o),
     search_file_patterns |-> search_file_patterns_of(o),
     ignore_file_patterns |-> ignore_file_patterns_of(o)]

\* FileFinder.files(): does the walk yield this file?
Passes(ff, file) ==
    \/ file.explicit
    \/ /\ file.dir \notin ff.ignore_dirs
       /\ ff.recurse \/ file.dir = "."
       /\ ff.search_extensions = {} \/ file.ext \in ff.search_extensions
       /\ file.ext \notin ff.ignore_extensions
       /\ ff.search_file_patterns = {} \/ ff.search_file_patterns \cap file.tags # {}
       /\ ff.ignore_file_patterns \cap file.tags = {}

\* ------------------------------------------------------------------------
\* ContentMatcher construction (pss_run, lines 118-128)
\* ------------------------------------------------------------------------
NoMatcher ==
    [built |-> FALSE, regex |-> <<>>, ignore_case |-> FALSE,
     invert_match |-> FALSE, max_match_count |-> maxint]

\* the value of ignore_case after lines 118-120
effective_ignore_case(o) ==
    IF ~o.ignore_case /\ (o.smart_case /\ ~pattern_has_uppercase(o.pattern))
    THEN TRUE ELSE o.ignore_case

\* _pattern_has_uppercase(None) iterates over None: TypeError
raises_TypeError(o) ==
    ~o.ignore_case /\ o.smart_case /\ o.pattern = NoPattern

ContentMatcher(o) ==
    [built |-> TRUE,
     regex |-> IF o.pattern = NoPattern THEN <<>> ELSE re_compile(o.pattern),
     ignore_case |-> effective_ignore_case(o),
     invert_match |-> o.invert_match,
     max_match_count |-> o.max_match_count]

\* ------------------------------------------------------------------------
\* Output sink calls
\* ------------------------------------------------------------------------
NoMatch == [lineno |-> 0, line |-> <<>>]

SinkCall(name, path) == [call |-> name, path |-> path, match |-> NoMatch]

matching_line(match) == [call |-> "matching_line", path |-> "", match |-> match]

NoFile == [path |-> None, pos |-> 0]

\* ------------------------------------------------------------------------
\* State
\* ------------------------------------------------------------------------
VARIABLES
    entry,          \* "main": the script is run; "api": pss_run is called directly
    cmdline,        \* the parsed command line (options, args) of main
    kwargs,         \* the keyword arguments main has assembled for pss_run
    opts,           \* pss_run's parameters
    tree,           \* the files under the roots, in directory-listing order
    pc,             \* position in main / pss_run
    err,            \* the exception that ended the run, or None
    IGNORED_DIRS,   \* the module-level default set
    finder,         \* the FileFinder
    matcher,        \* the ContentMatcher
    fpos,           \* index in tree of the path last yielded by finder.files()
    fileobj,        \* the file object bound to the local name fileobj
    open_files,     \* paths of the file objects that are open
    matches,        \* the local list matches
    mi,             \* position of the for loop over matches
    out             \* calls made on the output formatter, in order

vars == <<entry, cmdline, kwargs, opts, tree, pc, err, IGNORED_DIRS, finder,
          matcher, fpos, fileobj, open_files, matches, mi, out>>

\* ------------------------------------------------------------------------
\* Inputs: files, option records, command lines
\* ------------------------------------------------------------------------
File(path, dir, ext, tags, content, readable, explicit) ==
    [path |-> path, dir |-> dir, ext |-> ext, tags |-> tags,
     content |-> content, readable |-> readable, explicit |-> explicit]

a_py   == File("a.py", ".", ".py", {}, <<"a", "\n", "A", "\n", "a", "\n">>, TRUE, FALSE)

b_bin  == File("b.bin", ".", ".bin", {}, <<"0", "a", "\n", "A", "\n">>, TRUE, FALSE)

c_bin  == File("c.bin", ".", ".bin", {}, <<"0", "\n", "\n", "\n", "a", "\n">>, TRUE, TRUE)

d_txt  == File("d.txt", ".", ".txt", {}, <<"a", "\n", "a", "\n">>, TRUE, FALSE)

e_pl   == File("e.pl", ".", ".pl", {}, <<>>, FALSE, FALSE)

f_py   == File(".git/f.py", ".git", ".py", {}, <<"a", "\n">>, TRUE, FALSE)

g_bak  == File("g.py~", ".", ".py~", {"~$"}, <<"A", "\n">>, TRUE, FALSE)

mod_h  == File("sub/mod.h", "sub", ".h", {"mod"}, <<"A", "a", "\n">>, TRUE, FALSE)

mod_txt == File("build/mod.txt", "build", ".txt", {"mod"}, <<"a", "\n">>, TRUE, FALSE)

RunPool == {a_py, b_bin, c_bin, d_txt, e_pl, f_py}

BaseTree == <<d_txt, b_bin, a_py, e_pl, c_bin>>

ConfigTree == <<a_py, mod_h, f_py, g_bak, mod_txt>>

Trees(pool, n) ==
    {t \in UNION {[1..k -> pool] : k \in 0..n} :
        \A i, j \in 1..Len(t) : i # j => t[i] # t[j]}

PatChars == {"a", "A", "\\"}

Patterns(n) == UNION {[1..k -> PatChars] : k \in 0..n}

TypeNames == {"python", "cc", "lisp"}

DirNames == {".git", "build"}

ApiOpts == [DefaultOpts EXCEPT !.roots = << <<".">> >>, !.pattern = <<"a">>]

RunOpts ==
    {[ApiOpts EXCEPT !.pattern = p, !.ignore_case = ic, !.invert_match = inv,
                     !.max_match_count = cap, !.search_all_types = a] :
        p \in {<<"a">>, <<"A">>}, ic \in BOOLEAN, inv \in BOOLEAN,
        cap \in {1, maxint}, a \in BOOLEAN}

FindOpts ==
    {[ApiOpts EXCEPT !.pattern = NoPattern, !.only_find_files = TRUE,
                     !.ignore_case = ic, !.smart_case = sc,
                     !.invert_match = inv, !.search_all_types = a] :
        ic \in BOOLEAN, sc \in BOOLEAN, inv \in BOOLEAN, a \in BOOLEAN}

CaseOpts ==
    {[ApiOpts EXCEPT !.pattern = p, !.ignore_case = ic, !.smart_case = sc,
                     !.search_all_types = TRUE] :
        p \in Patterns(MaxPatLen), ic \in BOOLEAN, sc \in BOOLEAN}

ConfigOpts ==
    {[ApiOpts EXCEPT !.include_types = inc, !.exclude_types = exc,
                     !.type_pattern = tp, !.search_all_types = a,
                     !.search_all_files_and_dirs = u,
                     !.add_ignored_dirs = add, !.remove_ignored_dirs = rem,
                     !.recurse = r] :
        inc \in SUBSET TypeNames, exc \in SUBSET TypeNames,
        tp \in {None, "mod"}, a \in BOOLEAN, u \in BOOLEAN,
        add \in SUBSET DirNames, rem \in SUBSET DirNames, r \in BOOLEAN}

BaseOpts ==
    {[ApiOpts EXCEPT !.search_all_types = TRUE],
     [ApiOpts EXCEPT !.search_all_types = TRUE, !.pattern = <<"\\">>],
     [ApiOpts EXCEPT !.pattern = NoPattern, !.only_find_files = TRUE],
     [ApiOpts EXCEPT !.pattern = NoPattern, !.only_find_files = TRUE,
                     !.smart_case = TRUE],
     [ApiOpts EXCEPT !.include_types = {"lisp"}]}

\* optparse's values for an empty command line.  A flag that was not given is
\* None, which the program only tests for truth: it is written FALSE here,
\* and a list option that was not given (None, passed on as "x or []") is {}.
NoCmdline ==
    [args |-> <<>>, find_files |-> FALSE, find_files_matching_pattern |-> None,
     type_pattern |-> None, help |-> FALSE, help_types |-> FALSE,
     typelist |-> {}, context |-> None, before_context |-> 0,
     after_context |-> 0, all_types |-> FALSE, unrestricted |-> FALSE,
     ignored_dirs |-> {}, noignored_dirs |-> {}, recurse |-> TRUE,
     ignore_case |-> FALSE, smart_case |-> FALSE, invert_match |-> FALSE,
     word_regexp |-> FALSE, literal |-> FALSE, max_count |-> maxint,
     do_colors |-> FALSE, prefix_filename |-> FALSE, show_column |-> FALSE]

ArgWords == {<<"a">>, <<"A">>}

Cmdlines(n) ==
    {[NoCmdline EXCEPT !.args = args, !.find_files = f,
                       !.find_files_matching_pattern = g, !.help = h,
                       !.help_types = ht, !.typelist = tl, !.context = c,
                       !.ignored_dirs = d] :
        args \in UNION {[1..k -> ArgWords] : k \in 0..n},
        f \in BOOLEAN, g \in {None, "mod"}, h \in BOOLEAN, ht \in BOOLEAN,
        tl \in {{}, {"python", "nocc"}}, c \in {None, "2"},
        d \in {{}, {"build"}}}

BaseCmdlines ==
    {[NoCmdline EXCEPT !.args = << <<"a">> >>], [NoCmdline EXCEPT !.help = TRUE]}

\* ------------------------------------------------------------------------
\* Initial states
\* ------------------------------------------------------------------------
Start(e, c, o, t) ==
    /\ entry = e
    /\ cmdline = c
    /\ kwargs = DefaultOpts
    /\ opts = o
    /\ tree = t
    /\ pc = IF e = "main" THEN "main" ELSE "pss_run"
    /\ err = None
    /\ IGNORED_DIRS = DEFAULT_IGNORED_DIRS
    /\ finder = NoFinder
    /\ matcher = NoMatcher
    /\ fpos = 0
    /\ fileobj = NoFile
    /\ open_files = {}
    /\ matches = <<>>
    /\ mi = 0
    /\ out = <<>>

InitBase ==
    \/ \E o \in BaseOpts : Start("api", NoCmdline, o, BaseTree)
    \/ \E c \in BaseCmdlines : Start("main", c, DefaultOpts, BaseTree)

InitRun ==
    \E o \in RunOpts \cup FindOpts, t \in Trees(RunPool, MaxFiles) :
        Start("api", NoCmdline, o, t)

InitCase == \E o \in CaseOpts : Start("api", NoCmdline, o, <<d_txt, a_py>>)

InitConfig == \E o \in ConfigOpts : Start("api", NoCmdline, o, ConfigTree)

InitMain == \E c \in Cmdlines(MaxArgs) : Start("main", c, DefaultOpts, BaseTree)

\* ------------------------------------------------------------------------
\* main (scripts/pss.py)
\* ------------------------------------------------------------------------
\* typ.startswith('no') and typ[2:] for the --no<type> options
NoTypeOptions ==
    [t \in {"noactionscript", "nocc", "noperl", "nopython", "noxml"} |->
        CASE t = "noactionscript" -> "actionscript"
          [] t = "nocc"           -> "cc"
          [] t = "noperl"         -> "perl"
          [] t = "nopython"       -> "python"
          [] t = "noxml"          -> "xml"]

main_kwargs(c) ==
    LET pattern == IF c.find_files THEN NoPattern ELSE c.args[1]
        rest    == IF c.find_files THEN c.args ELSE Tail(c.args)
        roots   == IF Len(rest) = 0 THEN << <<".">> >> ELSE rest
        include_types == {typ \in c.typelist : typ \notin DOMAIN NoTypeOptions}
        exclude_types == {NoTypeOptions[typ] : typ \in c.typelist \cap DOMAIN NoTypeOptions}
        ncontext_before == IF c.context # None THEN c.context ELSE c.before_context
        ncontext_after  == IF c.context # None THEN c.context ELSE c.after_context
    IN [roots |-> roots, pattern |-> pattern, output_formatter |-> None,
        only_find_files |-> c.find_files, search_all_types |-> c.all_types,
        search_all_files_and_dirs |-> c.unrestricted,
        add_ignored_dirs |-> c.ignored_dirs,
        remove_ignored_dirs |-> c.noignored_dirs, recurse |-> c.recurse,
        type_pattern |-> c.type_pattern, include_types |-> include_types,
        exclude_types |-> exclude_types, ignore_case |-> c.ignore_case,
        smart_case |-> c.smart_case, invert_match |-> c.invert_match,
        whole_words |-> c.word_regexp, literal_pattern |-> c.literal,
        max_match_count |-> c.max_count, do_colors |-> c.do_colors,
        prefix_filename_to_file_matches |-> c.prefix_filename,
        show_column_of_first_match |-> c.show_column,
        ncontext_before |-> ncontext_before, ncontext_after |-> ncontext_after]

\* lines 25-40: -g implies -f; --help-types, --help and a missing pattern exit
Main_ParseArgs ==
    /\ pc = "main"
    /\ LET g  == cmdline.find_files_matching_pattern
           c2 == IF g # None
                 THEN [cmdline EXCEPT !.find_files = TRUE, !.type_pattern = g]
                 ELSE cmdline
       IN /\ cmdline' = c2
          /\ pc' = IF c2.help_types THEN "exit"
                   ELSE IF (Len(c2.args) = 0 /\ ~c2.find_files) \/ c2.help THEN "exit"
                   ELSE "main_unpack"
    /\ UNCHANGED <<entry, kwargs, opts, tree, err, IGNORED_DIRS, finder, matcher,
                   fpos, fileobj, open_files, matches, mi, out>>

\* lines 46-72: unpack args, partition the type list, settle the context
Main_Unpack ==
    /\ pc = "main_unpack"
    /\ kwargs' = main_kwargs(cmdline)
    /\ pc' = "main_call"
    /\ UNCHANGED <<entry, cmdline, opts, tree, err, IGNORED_DIRS, finder, matcher,
                   fpos, fileobj, open_files, matches, mi, out>>

\* lines 76-98: the call binds keyword arguments to pss_run's parameters;
\* a keyword that is no parameter raises TypeError
Main_Call ==
    /\ pc = "main_call"
    /\ IF DOMAIN kwargs \subseteq PssRunParams
       THEN /\ opts' = [k \in PssRunParams |->
                           IF k \in DOMAIN kwargs THEN kwargs[k] ELSE DefaultOpts[k]]
            /\ pc' = "pss_run"
            /\ err' = err
       ELSE /\ pc' = "error"
            /\ err' = "TypeError"
            /\ opts' = opts
    /\ UNCHANGED <<entry, cmdline, kwargs, tree, IGNORED_DIRS, finder, matcher,
                   fpos, fileobj, open_files, matches, mi, out>>

\* ------------------------------------------------------------------------
\* pss_run (psslib/driver.py)
\* ------------------------------------------------------------------------
\* lines 81-82 build a new set with | and -; the module-level set is not touched
IGNORED_DIRS_after(o, G) == G

\* lines 69-113
SetUpFileFinder ==
    /\ pc = "pss_run"
    /\ IGNORED_DIRS' = IGNORED_DIRS_after(opts, IGNORED_DIRS)
    /\ IF raises_KeyError(opts)
       THEN /\ pc' = "error"
            /\ err' = "KeyError"
            /\ finder' = finder
       ELSE /\ finder' = FileFinder(opts, IGNORED_DIRS)
            /\ pc' = "matcher"
            /\ err' = err
    /\ UNCHANGED <<entry, cmdline, kwargs, opts, tree, matcher, fpos, fileobj,
                   open_files, matches, mi, out>>

\* lines 118-128
SetUpMatcher ==
    /\ pc = "matcher"
    /\ IF raises_TypeError(opts)
       THEN /\ pc' = "error"
            /\ err' = "TypeError"
            /\ matcher' = matcher
       ELSE IF opts.pattern # NoPattern /\ Malformed(opts.pattern)
       THEN /\ pc' = "error"
            /\ err' = "re.error"
            /\ matcher' = matcher
       ELSE /\ matcher' = ContentMatcher(opts)
            /\ pc' = "loop"
            /\ err' = err
    /\ UNCHANGED <<entry, cmdline, kwargs, opts, tree, IGNORED_DIRS, finder, fpos,
                   fileobj, open_files, matches, mi, out>>

\* the next path finder.files() yields after fpos; 0 when it is exhausted
NextIndex ==
    LET c == {j \in (fpos + 1)..Len(tree) : Passes(finder, tree[j])}
    IN IF c = {} THEN 0 ELSE CHOOSE j \in c : \A j2 \in c : j <= j2

\* line 132, generator exhausted: pss_run returns and its locals are dropped
FinderExhausted ==
    /\ pc = "loop"
    /\ NextIndex = 0
    /\ pc' = "done"
    /\ fileobj' = NoFile
    /\ UNCHANGED <<entry, cmdline, kwargs, opts, tree, err, IGNORED_DIRS, finder,
                   matcher, fpos, open_files, matches, mi, out>>

\* lines 132-136
FoundFilename ==
    /\ pc = "loop"
    /\ NextIndex # 0
    /\ opts.only_find_files
    /\ fpos' = NextIndex
    /\ out' = Append(out, SinkCall("found_filename", tree[NextIndex].path))
    /\ UNCHANGED <<entry, cmdline, kwargs, opts, tree, pc, err, IGNORED_DIRS,
                   finder, matcher, fileobj, open_files, matches, mi>>

\* lines 132-134, only_find_files not set
NextCandidate ==
    /\ pc = "loop"
    /\ NextIndex # 0
    /\ ~opts.only_find_files
    /\ fpos' = NextIndex
    /\ pc' = "open"
    /\ UNCHANGED <<entry, cmdline, kwargs, opts, tree, err, IGNORED_DIRS, finder,
                   matcher, fileobj, open_files, matches, mi, out>>

\* line 144: open() raises IOError for an unreadable file; nothing catches it.
\* Otherwise the new file object is opened and then bound to fileobj; the
\* previous object loses its last reference and is closed by Release.
OpenFile ==
    /\ pc = "open"
    /\ IF tree[fpos].readable
       THEN /\ fileobj' = [path |-> tree[fpos].path, pos |-> 0]
            /\ open_files' = open_files \cup {tree[fpos].path}
            /\ pc' = "classify"
            /\ err' = err
       ELSE /\ pc' = "error"
            /\ err' = "IOError"
            /\ UNCHANGED <<fileobj, open_files>>
    /\ UNCHANGED <<entry, cmdline, kwargs, opts, tree, IGNORED_DIRS, finder,
                   matcher, fpos, matches, mi, out>>

\* A file object nothing refers to is closed by the interpreter's memory
\* management (at once under reference counting, at some later collection
\* otherwise); the driver itself never calls close().
Release ==
    /\ \E p \in open_files :
          /\ p # fileobj.path
          /\ open_files' = open_files \ {p}
    /\ UNCHANGED <<entry, cmdline, kwargs, opts, tree, pc, err, IGNORED_DIRS,
                   finder, matcher, fpos, fileobj, matches, mi, out>>

\* line 145, known extension: istextfile is not called
ClassifyKnown ==
    /\ pc = "classify"
    /\ known_file_type(tree[fpos])
    /\ pc' = "text"
    /\ UNCHANGED <<entry, cmdline, kwargs, opts, tree, err, IGNORED_DIRS, finder,
                   matcher, fpos, fileobj, open_files, matches, mi, out>>

\* line 145, unknown extension: istextfile reads a block from fileobj
ClassifyUnknown ==
    /\ pc = "classify"
    /\ ~known_file_type(tree[fpos])
    /\ fileobj' = after_read(tree[fpos], fileobj)
    /\ pc' = IF istextfile(tree[fpos], fileobj) THEN "text" ELSE "binary"
    /\ UNCHANGED <<entry, cmdline, kwargs, opts, tree, err, IGNORED_DIRS, finder,
                   matcher, fpos, open_files, matches, mi, out>>

\* lines 146-150.  Nothing reads fileobj after the matcher has been run on
\* it; its position is left at the end of the file.
BinaryProbe ==
    /\ pc = "binary"
    /\ matches' = match_file(matcher, tree[fpos], fileobj, 1)
    /\ fileobj' = [fileobj EXCEPT !.pos = Len(tree[fpos].content)]
    /\ out' = IF matches' # <<>>
              THEN Append(out, SinkCall("binary_file_matches", tree[fpos].path))
              ELSE out
    /\ pc' = "loop"
    /\ UNCHANGED <<entry, cmdline, kwargs, opts, tree, err, IGNORED_DIRS, finder,
                   matcher, fpos, open_files, mi>>

\* lines 152-156
TextMatch ==
    /\ pc = "text"
    /\ matches' = match_file(matcher, tree[fpos], seek(fileobj, 0),
                             matcher.max_match_count)
    /\ fileobj' = [fileobj EXCEPT !.pos = Len(tree[fpos].content)]
    /\ pc' = IF matches' = <<>> THEN "loop" ELSE "start"
    /\ UNCHANGED <<entry, cmdline, kwargs, opts, tree, err, IGNORED_DIRS, finder,
                   matcher, fpos, open_files, mi, out>>

\* line 157
EmitStart ==
    /\ pc = "start"
    /\ out' = Append(out, SinkCall("start_matches_in_file", tree[fpos].path))
    /\ mi' = 1
    /\ pc' = "lines"
    /\ UNCHANGED <<entry, cmdline, kwargs, opts, tree, err, IGNORED_DIRS, finder,
                   matcher, fpos, fileobj, open_files, matches>>

\* lines 158-159
EmitLine ==
    /\ pc = "lines"
    /\ mi <= Len(matches)
    /\ out' = Append(out, matching_line(matches[mi]))
    /\ mi' = mi + 1
    /\ UNCHANGED <<entry, cmdline, kwargs, opts, tree, pc, err, IGNORED_DIRS,
                   finder, matcher, fpos, fileobj, open_files, matches>>

\* line 160
EmitEnd ==
    /\ pc = "lines"
    /\ mi > Len(matches)
    /\ out' = Append(out, SinkCall("end_matches_in_file", tree[fpos].path))
    /\ pc' = "loop"
    /\ UNCHANGED <<entry, cmdline, kwargs, opts, tree, err, IGNORED_DIRS, finder,
                   matcher, fpos, fileobj, open_files, matches, mi>>

Next ==
    \/ Main_ParseArgs
    \/ Main_Unpack
    \/ Main_Call
    \/ SetUpFileFinder
    \/ SetUpMatcher
    \/ FinderExhausted
    \/ FoundFilename
    \/ NextCandidate
    \/ OpenFile
    \/ Release
    \/ ClassifyKnown
    \/ ClassifyUnknown
    \/ BinaryProbe
    \/ TextMatch
    \/ EmitStart
    \/ EmitLine
    \/ EmitEnd

Init == InitBase \/ InitRun

Spec == Init /\ [][Next]_vars

InitC == InitBase \/ InitCase

SpecCase == InitC /\ [][Next]_vars

InitF == InitBase \/ InitConfig

SpecConfig == InitF /\ [][Next]_vars

InitM == InitBase \/ InitMain

SpecMain == InitM /\ [][Next]_vars

\* ------------------------------------------------------------------------
\* Definitions shared by the properties
\* ------------------------------------------------------------------------
InPssRunLoop == matcher.built

\* candidate j has been handled completely
Finished(j) == j < fpos \/ (j = fpos /\ pc \in {"loop", "done"})

AllLines(f) == ReadLines(f.content, 0)

\* line numbers of f that yield a Match Record, before the cap
Hits(f) ==
    {k \in 1..Len(AllLines(f)) : re_search(matcher, AllLines(f)[k]) # opts.invert_match}

\* the first max_match_count of them
Reported(f) ==
    {k \in Hits(f) : Cardinality({h \in Hits(f) : h < k}) < opts.max_match_count}

RECURSIVE Ascending(_)
Ascending(S) ==
    IF S = {} THEN <<>>
    ELSE LET m == CHOOSE x \in S : \A y \in S : x <= y
         IN <<m>> \o Ascending(S \ {m})

ExpectedLineCalls(f) ==
    [i \in 1..Cardinality(Reported(f)) |->
        matching_line([lineno |-> Ascending(Reported(f))[i],
                       line |-> AllLines(f)[Ascending(Reported(f))[i]]])]

IsBinary(f) ==
    ~known_file_type(f) /\ \E k \in 1..Min(BlockSize, Len(f.content)) : f.content[k] = "0"

ExpectedBlock(f) ==
    IF IsBinary(f) \/ Reported(f) = {} THEN <<>>
    ELSE <<SinkCall("start_matches_in_file", f.path)>>
            \o ExpectedLineCalls(f)
            \o <<SinkCall("end_matches_in_file", f.path)>>

RECURSIVE ExpectedBlocks(_)
ExpectedBlocks(j) ==
    IF j <= 0 THEN <<>>
    ELSE ExpectedBlocks(j - 1)
            \o (IF Passes(finder, tree[j]) THEN ExpectedBlock(tree[j]) ELSE <<>>)

IsLineLevelCall(c) == c.call # "binary_file_matches"

CallsFor(path, names) ==
    SelectSeq(out, LAMBDA c : c.path = path /\ c.call \in names)

\* ------------------------------------------------------------------------
\* Properties
\* ------------------------------------------------------------------------

\* C1: in a normal run the start/line/end calls on the sink are, in traversal
\* order, one block per text file: nothing for a file without matches, and
\* start_matches_in_file, the Match Records in line order, end_matches_in_file
\* for a file with matches; while a block is being emitted the calls made so
\* far are the finished blocks followed by the open block's start marker and
\* its first lines, so no marker is left open and no block is interleaved.
C1_BlocksPerFile ==
    (InPssRunLoop /\ ~opts.only_find_files) =>
        SelectSeq(out, IsLineLevelCall) =
            ExpectedBlocks(IF pc \in {"loop", "done"} THEN fpos ELSE fpos - 1)
            \o (IF pc = "lines"
                THEN <<SinkCall("start_matches_in_file", tree[fpos].path)>>
                        \o SubSeq(ExpectedLineCalls(tree[fpos]), 1, mi - 1)
                ELSE <<>>)

C1_Witness ==
    /\ pc = "done"
    /\ ~opts.only_find_files
    /\ \E i, j \in 1..Len(tree) :
          /\ Passes(finder, tree[i]) /\ Passes(finder, tree[j])
          /\ ~IsBinary(tree[i]) /\ Reported(tree[i]) = {}
          /\ ~IsBinary(tree[j]) /\ Reported(tree[j]) # {}
    /\ Len(out) >= 3

\* C2: a finished file of unknown extension that the detector classifies as
\* binary has exactly one binary_file_matches notice if some line of the whole
\* file matches the pattern, none otherwise, and never a start or end marker.
C2_BinaryNotice ==
    \A j \in 1..Len(tree) :
        (/\ InPssRunLoop /\ ~opts.only_find_files /\ ~opts.invert_match
         /\ Passes(finder, tree[j]) /\ Finished(j)
         /\ tree[j].readable /\ IsBinary(tree[j]))
        => /\ Len(CallsFor(tree[j].path, {"binary_file_matches"}))
                 = (IF Hits(tree[j]) # {} THEN 1 ELSE 0)
           /\ CallsFor(tree[j].path,
                       {"start_matches_in_file", "end_matches_in_file"}) = <<>>

\* C3: an unreadable candidate never ends the run, and when the run has ended
\* every candidate of the finder has been visited.
C3_UnreadableSkipped ==
    /\ err # "IOError"
    /\ (InPssRunLoop /\ ~opts.only_find_files /\ pc \in {"done", "error"}) =>
          \A j \in 1..Len(tree) : Passes(finder, tree[j]) => j <= fpos

\* C4: in only-find-files mode with no pattern the run never fails, constructs
\* no matcher, opens no file, and its sink calls are found_filename for the
\* candidates yielded so far, in order (all of them when the run is done).
C4_FindFilesOnly ==
    (opts.only_find_files /\ opts.pattern = NoPattern) =>
        /\ pc # "error"
        /\ ~matcher.built
        /\ open_files = {} /\ fileobj = NoFile
        /\ finder.built =>
              out = [i \in 1..Cardinality({j \in 1..fpos : Passes(finder, tree[j])}) |->
                        SinkCall("found_filename",
                                 tree[Ascending({j \in 1..fpos : Passes(finder, tree[j])})[i]].path)]
        /\ pc = "done" => \A j \in 1..Len(tree) : Passes(finder, tree[j]) => j <= fpos

\* C5 as stated: the matcher's ignore-case flag is ignore_case OR (smart_case
\* AND the raw pattern holds no uppercase letter at any position).
C5_RawUppercase ==
    (matcher.built /\ opts.pattern # NoPattern) =>
        matcher.ignore_case =
            (opts.ignore_case \/
             (opts.smart_case /\
              ~ \E i \in 1..Len(opts.pattern) : IsUpper(opts.pattern[i])))

\* position i of the pattern is consumed by a backslash escape
RECURSIVE Escaped(_, _)
Escaped(pattern, i) ==
    /\ i > 1
    /\ pattern[i - 1] = "\\"
    /\ ~Escaped(pattern, i - 1)

\* C5 amended: the matcher's ignore-case flag is ignore_case OR (smart_case
\* AND the pattern holds no uppercase letter outside a backslash escape).
C5_UnescapedUppercase ==
    (matcher.built /\ opts.pattern # NoPattern) =>
        matcher.ignore_case =
            (opts.ignore_case \/
             (opts.smart_case /\
              ~ \E i \in 1..Len(opts.pattern) :
                    IsUpper(opts.pattern[i]) /\ ~Escaped(opts.pattern, i)))

C5_Witness ==
    /\ matcher.built
    /\ opts.smart_case /\ ~opts.ignore_case
    /\ opts.pattern = <<"\\", "\\", "A">>
    /\ ~matcher.ignore_case

\* C6: at every point of a run at most one candidate file is open.
C6_OneFileOpen == Cardinality(open_files) <= 1

\* C7: a type name that is no key of the table makes pss_run fail with
\* KeyError before the finder is built and before any sink call, whatever the
\* other options are.
C7_UnknownTypeFails ==
    (/\ pc \notin {"main", "main_unpack", "main_call", "exit", "pss_run"}
     /\ \E typ \in opts.include_types \cup opts.exclude_types :
           typ \notin DOMAIN TYPE_EXTENSION_MAP)
    => (pc = "error" /\ err = "KeyError" /\ ~finder.built /\ out = <<>>)

\* C8: with types included or excluded by name and neither all-types nor
\* unrestricted set, the finder's extension filter comes from the type table
\* and only files that pass it are yielded, with or without a type_pattern.
C8_TypeFilterBuilt ==
    (/\ finder.built
     /\ opts.include_types \cup opts.exclude_types # {}
     /\ ~opts.search_all_types /\ ~opts.search_all_files_and_dirs)
    => /\ finder.search_extensions =
              UNION {TYPE_EXTENSION_MAP[t] :
                        t \in (IF opts.include_types # {} THEN opts.include_types
                               ELSE DOMAIN TYPE_EXTENSION_MAP)}
       /\ finder.ignore_extensions =
              UNION {TYPE_EXTENSION_MAP[t] : t \in opts.exclude_types}
       /\ \A p \in open_files : \A j \in 1..Len(tree) :
              (tree[j].path = p /\ ~tree[j].explicit) =>
                  /\ tree[j].ext \in finder.search_extensions
                  /\ tree[j].ext \notin finder.ignore_extensions

\* C9: the finder's ignore-directory set is empty when unrestricted is set;
\* otherwise a name is in it exactly if it is a default or was added, and was
\* not removed.  The module-level default set is never changed.
C9_IgnoreDirs ==
    /\ IGNORED_DIRS = DEFAULT_IGNORED_DIRS
    /\ finder.built =>
          IF opts.search_all_files_and_dirs THEN finder.ignore_dirs = {}
          ELSE \A d \in DEFAULT_IGNORED_DIRS \cup DirNames \cup finder.ignore_dirs :
                  d \in finder.ignore_dirs <=>
                      /\ d \in DEFAULT_IGNORED_DIRS \/ d \in opts.add_ignored_dirs
                      /\ d \notin opts.remove_ignored_dirs

C9_Witness ==
    /\ pc = "done"
    /\ finder.built
    /\ ~opts.search_all_files_and_dirs
    /\ opts.add_ignored_dirs \cap opts.remove_ignored_dirs # {}
    /\ opts.remove_ignored_dirs \cap DEFAULT_IGNORED_DIRS # {}
    /\ opts.add_ignored_dirs \ opts.remove_ignored_dirs # {}
    /\ \E j \in 1..fpos : tree[j].dir \in opts.remove_ignored_dirs

\* C10: every command line that passes main's argument checks gets into
\* pss_run, with pattern and roots as unpacked from the positional arguments.
C10_MainCallAccepted ==
    entry = "main" =>
        /\ err # "TypeError"
        /\ pc \notin {"main", "main_unpack", "main_call", "exit"} =>
              /\ opts.pattern = (IF cmdline.find_files THEN NoPattern
                                 ELSE cmdline.args[1])
              /\ opts.roots =
                    (LET rest == IF cmdline.find_files THEN cmdline.args
                                 ELSE Tail(cmdline.args)
                     IN IF rest = <<>> THEN << <<".">> >> ELSE rest)

====
